---- MODULE Spec2Model ----
(***************************************************************************)
(* A model of percentman's local persistence store (storage/storage.go)    *)
(* and of the values it stores (models: Header, Request, Response,         *)
(* Template, HistoryItem).                                                 *)
(*                                                                         *)
(* Go values are modelled with their sharing:                              *)
(*   - a []Header slice is a reference to a backing array; the model keeps *)
(*     the arrays in `heap` and a slice is the address of its array (every *)
(*     slice the store creates covers its whole array: make(n) + copy);    *)
(*   - strings, ints and structs are values;                               *)
(*   - template names are modelled by natural numbers ordered as the       *)
(*     strings are ordered by Go's <; uuid.New() is a fresh number;        *)
(*     time.Now() is a logical clock that advances on every reading.       *)
(***************************************************************************)
EXTENDS Integers, Sequences, FiniteSets, TLC

VARIABLES
  templates,  \* Storage.templates: sequence of Template
  history,    \* Storage.history: sequence of HistoryItem
  heap,       \* backing arrays of []Header slices: heap[a] is a sequence of Header
  nextId,     \* the next value uuid.New() returns
  clock,      \* the next value time.Now() returns
  tfile,      \* content of templates.json
  hfile,      \* content of history.json
  cur,        \* the caller's live request (App.currentRequest)
  gotT,       \* the sequence the caller last got from GetTemplates
  gotH,       \* the sequence the caller last got from GetHistory
  ret,        \* what the last store call returned to its caller
  added,      \* history variable: the items AddHistory created since the last ClearHistory, oldest first
  mu,         \* Storage.mu: [writer: the goroutine holding Lock or 0, readers: the goroutines holding RLock]
  pc,         \* position of each goroutine in the store method it runs
  loc,        \* locals of each goroutine's running call
  result,     \* the Response the last Client.SendRequest returned
  wire,       \* the network: how many requests were issued, and the last one
  maps,       \* the Go maps allocated (the Headers of responses), by address; NilMap is no map
  tstale,     \* the cells of the array under s.templates beyond its length (followed by SpecRet)
  tret        \* the *Template a caller holds from SaveTemplate (followed by SpecRet)

vars == <<templates, history, heap, nextId, clock, tfile, hfile, cur, gotT, gotH,
          ret, added, mu, pc, loc, result, wire, maps, tstale, tret>>

storeVars == <<templates, history, heap, nextId, clock, tfile, hfile>>
procVars == <<mu, pc, loc>>
netVars == <<result, wire, maps>>
retVars == <<tstale, tret>>

(***************************************************************************)
(* Bounds of the model and constants of the program.                       *)
(***************************************************************************)
maxHistoryItems == 50

NumNames == 2
MaxClock == 2
NumNamesT == 3
MaxSaves == 4
MaxAdds == 60

Names == 1..NumNames
Methods == {"GET", "POST"}


Header(k, v, e) == [key |-> k, value |-> v, enabled |-> e]

\* what a caller enters in the request panel: method, url, header rows, body
Inputs ==
  { <<"GET", "", <<>>, "">>,
    <<"POST", "example.com/x",
      <<Header("Accept", "text/plain", TRUE), Header("", "unused", TRUE)>>, "{}">> }

\* a nil map[string]string
NilMap == 0

\* &models.Response{}
ZeroResponse ==
  [status_code |-> 0, status |-> "", headers |-> NilMap, body |-> "", response_time |-> 0,
   error |-> ""]

\* a Response with this status code and error, its other fields zero
Response(code, err) == [ZeroResponse EXCEPT !.status_code = code, !.error = err]

Responses == { Response(200, ""), Response(0, "connection refused") }

Min(a, b) == IF a < b THEN a ELSE b

(***************************************************************************)
(* models: NewRequest and Request.Clone.                                   *)
(***************************************************************************)
\* NewRequest: method GET, empty url and body, an empty header slice at address a
NewRequest(a) == [method |-> "GET", url |-> "", headers |-> a, body |-> ""]

\* a bug: Clone copies the struct only, so the copy shares r's Headers array
CloneAlias(h, r) == r

\* the heap after make([]Header, len(r.Headers)); copy(headers, r.Headers)
CloneHeap(h, r) == Append(h, h[r.headers])

\* the Request that Clone returns: the fields of r with the new slice
Clone(h, r) == [method |-> r.method, url |-> r.url, headers |-> Len(h) + 1, body |-> r.body]

(***************************************************************************)
(* encoding/json of the two collections, and os.WriteFile.                 *)
(***************************************************************************)
MarshalRequest(h, r) ==
  [method |-> r.method, url |-> r.url, headers |-> h[r.headers], body |-> r.body]

\* Response.Error is tagged omitempty: the field is left out when empty
MarshalResponseIn(ms, r) ==
  LET hd == IF r.headers = NilMap THEN "null" ELSE ms[r.headers]
  IN IF r.error = ""
     THEN [status_code |-> r.status_code, status |-> r.status, headers |-> hd,
           body |-> r.body, response_time |-> r.response_time]
     ELSE [status_code |-> r.status_code, status |-> r.status, headers |-> hd,
           body |-> r.body, response_time |-> r.response_time, error |-> r.error]

MarshalResponse(r) == MarshalResponseIn(maps, r)

MarshalTemplates(h, ts) ==
  [i \in 1..Len(ts) |->
     [id |-> ts[i].id, name |-> ts[i].name, request |-> MarshalRequest(h, ts[i].request),
      created_at |-> ts[i].createdAt, updated_at |-> ts[i].updatedAt]]

\* json.MarshalIndent(s.history), the maps of the process being ms
MarshalHistoryIn(ms, h, hs) ==
  [i \in 1..Len(hs) |->
     [id |-> hs[i].id, request |-> MarshalRequest(h, hs[i].request),
      response |-> MarshalResponseIn(ms, hs[i].response), timestamp |-> hs[i].timestamp]]

MarshalHistory(h, hs) == MarshalHistoryIn(maps, h, hs)

NoFile == [kind |-> "absent", data |-> <<>>]
FileOf(data) == [kind |-> "data", data |-> data]
PartialFile == [kind |-> "partial", data |-> <<>>]

\* outcomes of os.WriteFile: written; failed before the file was opened and
\* truncated; failed after it was truncated (a partially written file)
WriteOutcomes == {"ok", "err_unchanged", "err_partial"}

\* a bug: the file is opened for appending instead of being overwritten
WriteFileAppend(old, data, w) ==
  CASE w = "ok" -> FileOf(old.data \o data)
    [] w = "err_unchanged" -> old
    [] w = "err_partial" -> PartialFile

WriteFile(old, data, w) ==
  CASE w = "ok" -> FileOf(data)
    [] w = "err_unchanged" -> old
    [] w = "err_partial" -> PartialFile

\* a bug: the error of the write is dropped
WriteErrIgnored(w) == FALSE

\* if err := s.saveTemplates(); err != nil { return nil, err }
WriteErr(w) == w # "ok"

(***************************************************************************)
(* storage: the pieces of the store's methods, as functions of values.     *)
(***************************************************************************)
\* a bug: the search stops after the first template
IndexOfNameFirstOnly(ts, name) ==
  IF Len(ts) > 0 /\ ts[1].name = name THEN 1 ELSE 0

\* for i, t := range s.templates { if t.Name == name {...} }: the first match, 0 if none
IndexOfName(ts, name) ==
  IF \E i \in 1..Len(ts) : ts[i].name = name
  THEN CHOOSE i \in 1..Len(ts) :
         ts[i].name = name /\ \A j \in 1..(i - 1) : ts[j].name # name
  ELSE 0

\* for i, t := range s.templates { if t.ID == id {...} }: the first match, 0 if none
IndexOfID(ts, id) ==
  IF \E i \in 1..Len(ts) : ts[i].id = id
  THEN CHOOSE i \in 1..Len(ts) :
         ts[i].id = id /\ \A j \in 1..(i - 1) : ts[j].id # id
  ELSE 0

\* a bug: the slot is overwritten with a new Template value under the old id,
\* which resets CreatedAt
UpdateExistingFresh(ts, i, req, now) ==
  [ts EXCEPT ![i] = [id |-> ts[i].id, name |-> ts[i].name, request |-> req,
                     createdAt |-> now, updatedAt |-> now]]

\* s.templates[i].Request = *req.Clone()
SetRequest(ts, i, req) == [ts EXCEPT ![i].request = req]

\* s.templates[i].UpdatedAt = now
SetUpdatedAt(ts, i, now) == [ts EXCEPT ![i].updatedAt = now]

\* the update of an existing template: both assignments
UpdateExisting(ts, i, req, now) == SetUpdatedAt(SetRequest(ts, i, req), i, now)

\* models.Template{ID: uuid.New().String(), Name: name, Request: *req.Clone(), ...}
NewTemplate(id, name, req, now) ==
  [id |-> id, name |-> name, request |-> req, createdAt |-> now, updatedAt |-> now]

\* a bug: the sort is left out
SortSliceNone(ts) == {ts}

\* sort.Slice(s.templates, less by Name): a permutation in which no element is
\* less than one before it (sort.Slice is not stable: every such permutation)
SortSlice(ts) ==
  { t \in { [i \in 1..Len(ts) |-> ts[p[i]]] : p \in Permutations(1..Len(ts)) } :
      \A i \in 1..Len(t) : \A j \in i..Len(t) : ~(t[j].name < t[i].name) }

\* a bug: the last template is moved into the slot of the removed one
RemoveAtSwap(ts, i) ==
  [j \in 1..(Len(ts) - 1) |-> IF j = i THEN ts[Len(ts)] ELSE ts[j]]

\* append(s.templates[:i], s.templates[i+1:]...)
RemoveAt(ts, i) == SubSeq(ts, 1, i - 1) \o SubSeq(ts, i + 1, Len(ts))

\* models.HistoryItem{ID: uuid.New().String(), Request: *req.Clone(), Response: *resp, Timestamp: time.Now()}
NewHistoryItem(id, req, resp, now) ==
  [id |-> id, request |-> req, response |-> resp, timestamp |-> now]

\* append([]models.HistoryItem{item}, s.history...)
Prepend(item, hs) == <<item>> \o hs

\* a bug: the cap drops the head (the newest items) instead of the tail
TruncateHead(hs) ==
  IF Len(hs) > maxHistoryItems
  THEN SubSeq(hs, Len(hs) - maxHistoryItems + 1, Len(hs))
  ELSE hs

\* if len(s.history) > maxHistoryItems { s.history = s.history[:maxHistoryItems] }
Truncate(hs) ==
  IF Len(hs) > maxHistoryItems THEN SubSeq(hs, 1, maxHistoryItems) ELSE hs

\* what a mutating store call hands back: the method called and whether its err != nil
Ret(op, err) == [op |-> op, err |-> err]

(***************************************************************************)
(* The store's methods called one at a time (each call runs to its return  *)
(* before the next starts). The request passed is the caller's live one.   *)
(***************************************************************************)
\* the addresses of the arrays that the slices of the stored templates ts, the
\* stored history hs, the caller's request c and the sequences gt and gh the
\* caller got from the read methods refer to
Live(ts, hs, c, gt, gh) ==
  {c.headers} \cup {ts[i].request.headers : i \in 1..Len(ts)}
              \cup {hs[i].request.headers : i \in 1..Len(hs)}
              \cup {gt[i].request.headers : i \in 1..Len(gt)}
              \cup {gh[i].request.headers : i \in 1..Len(gh)}

\* an array no slice refers to is garbage: the program cannot read it again,
\* and the model keeps it empty from the return of the call that dropped it
Collect(h, live) == [a \in 1..Len(h) |-> IF a \in live THEN h[a] ELSE <<>>]

\* Storage.SaveTemplate(name, cur), the file write ending as w
SaveTemplate(name, w) ==
  LET i == IndexOfName(templates, name)
      req == Clone(heap, cur)
      h2 == CloneHeap(heap, cur)
  IN /\ clock' = clock + 1
     /\ IF i # 0
        THEN /\ templates' = UpdateExisting(templates, i, req, clock)
             /\ nextId' = nextId
        ELSE /\ templates' \in SortSlice(Append(templates, NewTemplate(nextId, name, req, clock)))
             /\ nextId' = nextId + 1
     /\ heap' = Collect(h2, Live(templates', history, cur, gotT, gotH))
     /\ tfile' = WriteFile(tfile, MarshalTemplates(h2, templates'), w)
     /\ ret' = Ret("SaveTemplate", WriteErr(w))
     /\ UNCHANGED <<history, hfile, cur, gotT, gotH, added, procVars, netVars, retVars>>

\* Storage.DeleteTemplate(id), the file write (if any) ending as w
DeleteTemplate(id, w) ==
  LET i == IndexOfID(templates, id)
  IN /\ IF i # 0
        THEN /\ templates' = RemoveAt(templates, i)
             /\ tfile' = WriteFile(tfile, MarshalTemplates(heap, templates'), w)
             /\ ret' = Ret("DeleteTemplate", WriteErr(w))
        ELSE /\ w = "ok"
             /\ UNCHANGED <<templates, tfile>>
             /\ ret' = Ret("DeleteTemplate", FALSE)
     /\ heap' = Collect(heap, Live(templates', history, cur, gotT, gotH))
     /\ UNCHANGED <<history, nextId, clock, hfile, cur, gotT, gotH, added, procVars, netVars, retVars>>

\* Storage.AddHistory(cur, resp), the file write ending as w
AddHistory(resp, w) ==
  LET item == NewHistoryItem(nextId, Clone(heap, cur), resp, clock)
      h2 == CloneHeap(heap, cur)
  IN /\ nextId' = nextId + 1
     /\ clock' = clock + 1
     /\ history' = Truncate(Prepend(item, history))
     /\ heap' = Collect(h2, Live(templates, history', cur, gotT, gotH))
     /\ hfile' = WriteFile(hfile, MarshalHistory(h2, history'), w)
     /\ ret' = Ret("AddHistory", WriteErr(w))
     /\ added' = Append(added, item)
     /\ UNCHANGED <<templates, tfile, cur, gotT, gotH, procVars, netVars, retVars>>

\* a bug: the history is emptied in memory and the file is not written
ClearHistoryKeepsFile(w) ==
  /\ history' = <<>>
  /\ ret' = Ret("ClearHistory", FALSE)
  /\ added' = <<>>
  /\ heap' = Collect(heap, Live(templates, history', cur, gotT, gotH))
  /\ UNCHANGED <<templates, nextId, clock, tfile, hfile, cur, gotT, gotH, procVars, netVars, retVars>>

\* Storage.ClearHistory(), the file write ending as w
ClearHistory(w) ==
  /\ history' = <<>>
  /\ hfile' = WriteFile(hfile, MarshalHistory(heap, history'), w)
  /\ ret' = Ret("ClearHistory", WriteErr(w))
  /\ added' = <<>>
  /\ heap' = Collect(heap, Live(templates, history', cur, gotT, gotH))
  /\ UNCHANGED <<templates, nextId, clock, tfile, cur, gotT, gotH, procVars, netVars, retVars>>

\* Storage.GetTemplates(): result := make(..., len); copy(result, s.templates)
\* (the Template structs are copied; each Request.Headers still names the same array)
GetTemplates ==
  /\ gotT' = templates
  /\ UNCHANGED <<storeVars, cur, gotH, ret, added, procVars, netVars, retVars>>

\* Storage.GetHistory(): result := make(..., len); copy(result, s.history)
GetHistory ==
  /\ gotH' = history
  /\ UNCHANGED <<storeVars, cur, gotT, ret, added, procVars, netVars, retVars>>

(***************************************************************************)
(* What a caller can do with the values it holds.                          *)
(***************************************************************************)
\* whether a stored or returned request's slice is the array at address a
Referenced(a) ==
  \/ \E i \in 1..Len(templates) : templates[i].request.headers = a
  \/ \E i \in 1..Len(history) : history[i].request.headers = a
  \/ \E i \in 1..Len(gotT) : gotT[i].request.headers = a
  \/ \E i \in 1..Len(gotH) : gotH[i].request.headers = a

\* RequestPanel.UpdateRequest: the scalar fields are set and Headers is rebuilt
\* in a fresh slice from the rows whose key is not empty. The array the request
\* held before is garbage unless something else refers to it, and the allocator
\* may hand its address out again: the model then reuses it.
CallerUpdateRequest(m, u, hl, b) ==
  LET rows == SelectSeq(hl, LAMBDA x : x.key # "")
      a == IF Referenced(cur.headers) THEN Len(heap) + 1 ELSE cur.headers
  IN /\ <<m, u, rows, b>> # <<cur.method, cur.url, heap[cur.headers], cur.body>>
     /\ heap' = IF a = cur.headers THEN [heap EXCEPT ![a] = rows] ELSE Append(heap, rows)
     /\ cur' = [method |-> m, url |-> u, headers |-> a, body |-> b]
     /\ UNCHANGED <<templates, history, nextId, clock, tfile, hfile, gotT, gotH, ret, added, procVars, netVars, retVars>>

\* req.Headers[j].Enabled = !req.Headers[j].Enabled on the caller's live request
CallerEditHeader(j) ==
  /\ j \in 1..Len(heap[cur.headers])
  /\ heap' = [heap EXCEPT ![cur.headers][j].enabled = ~@]
  /\ UNCHANGED <<templates, history, nextId, clock, tfile, hfile, cur, gotT, gotH, ret, added, procVars, netVars, retVars>>

\* ts[i].Request.Method = m on a sequence GetTemplates returned
CallerSetGotT(i, m) ==
  /\ i \in 1..Len(gotT)
  /\ gotT[i].request.method # m
  /\ gotT' = [gotT EXCEPT ![i].request.method = m]
  /\ UNCHANGED <<storeVars, cur, gotH, ret, added, procVars, netVars, retVars>>

\* ts[i].Request.Headers[j].Enabled = !... on a sequence GetTemplates returned
CallerEditGotT(i, j) ==
  /\ i \in 1..Len(gotT)
  /\ j \in 1..Len(heap[gotT[i].request.headers])
  /\ heap' = [heap EXCEPT ![gotT[i].request.headers][j].enabled = ~@]
  /\ UNCHANGED <<templates, history, nextId, clock, tfile, hfile, cur, gotT, gotH, ret, added, procVars, netVars, retVars>>

\* hs[i].Request.Method = m on a sequence GetHistory returned
CallerSetGotH(i, m) ==
  /\ i \in 1..Len(gotH)
  /\ gotH[i].request.method # m
  /\ gotH' = [gotH EXCEPT ![i].request.method = m]
  /\ UNCHANGED <<storeVars, cur, gotT, ret, added, procVars, netVars, retVars>>

\* hs[i].Request.Headers[j].Enabled = !... on a sequence GetHistory returned
CallerEditGotH(i, j) ==
  /\ i \in 1..Len(gotH)
  /\ j \in 1..Len(heap[gotH[i].request.headers])
  /\ heap' = [heap EXCEPT ![gotH[i].request.headers][j].enabled = ~@]
  /\ UNCHANGED <<templates, history, nextId, clock, tfile, hfile, cur, gotT, gotH, ret, added, procVars, netVars, retVars>>

(***************************************************************************)
(* http: Client.SendRequest. Strings are atoms of the model, so prefix     *)
(* test and concatenation are tabulated for the urls the model uses. A Go  *)
(* map is nil or a function; http.Header holds one value per key here      *)
(* (the code only calls Set).                                              *)
(***************************************************************************)
\* the longest header list of a request sent, and the number of requests sent
MaxHeaders == 2
MaxSends == 1

URLs == {"", "example.com/x", "http://example.com/x", "https://example.com/x", "%zz"}
Bodies == {"", "{}"}
HeaderKeys == {"Content-Type", "content-type", "Accept", ""}
HeaderValues == {"", "text/plain", "application/json"}
HeaderSet == { Header(k, v, e) : k \in HeaderKeys, v \in HeaderValues, e \in BOOLEAN }
HeaderLists == UNION { [1..n -> HeaderSet] : n \in 0..MaxHeaders }

\* strings.HasPrefix(s, p)
HasPrefix(s, p) ==
  <<s, p>> \in { <<"https://example.com/x", "https://">>, <<"http://example.com/x", "http://">>,
                 <<"http://%zz", "http://">>, <<"http://", "http://">> }

\* "http://" + url
AddHTTP(url) ==
  CASE url = "example.com/x" -> "http://example.com/x"
    [] url = "%zz" -> "http://%zz"
    [] url = "" -> "http://"
    [] url = "http://example.com/x" -> "http://http://example.com/x"
    [] url = "https://example.com/x" -> "http://https://example.com/x"

\* a bug: the prefix is put before every url
RequestURLAlways(url) == AddHTTP(url)

\* url := req.URL; if it has neither scheme prefix, "http://" is put before it
RequestURL(url) ==
  IF ~HasPrefix(url, "http://") /\ ~HasPrefix(url, "https://") THEN AddHTTP(url) ELSE url

\* http.NewRequest returns an error: the url does not parse (the methods the
\* request panel offers are all valid)
NewRequestFails(method, url) == url = "http://%zz"

\* textproto.CanonicalMIMEHeaderKey
CanonicalKey(k) ==
  CASE k = "content-type" -> "Content-Type"
    [] k = "accept" -> "Accept"
    [] OTHER -> k

\* a bug: a key that is already set keeps its value
HeaderSetKeyFirst(hd, k, v) ==
  [x \in DOMAIN hd \cup {CanonicalKey(k)} |-> IF x \in DOMAIN hd THEN hd[x] ELSE v]

\* http.Header.Set(k, v) and http.Header.Get(k)
HeaderSetKey(hd, k, v) ==
  [x \in DOMAIN hd \cup {CanonicalKey(k)} |-> IF x = CanonicalKey(k) THEN v ELSE hd[x]]
HeaderGet(hd, k) == IF CanonicalKey(k) \in DOMAIN hd THEN hd[CanonicalKey(k)] ELSE ""

\* a bug: the Enabled flag is not looked at
RECURSIVE AddHeadersAll(_, _, _)
AddHeadersAll(hd, hs, i) ==
  IF i > Len(hs) THEN hd
  ELSE AddHeadersAll(IF hs[i].key # "" THEN HeaderSetKey(hd, hs[i].key, hs[i].value) ELSE hd,
                     hs, i + 1)

\* for _, h := range req.Headers { if h.Enabled && h.Key != "" { httpReq.Header.Set(h.Key, h.Value) } }
\* from entry i on
RECURSIVE AddHeaders(_, _, _)
AddHeaders(hd, hs, i) ==
  IF i > Len(hs) THEN hd
  ELSE AddHeaders(IF hs[i].enabled /\ hs[i].key # ""
                  THEN HeaderSetKey(hd, hs[i].key, hs[i].value) ELSE hd,
                  hs, i + 1)

\* if req.Body != "" && httpReq.Header.Get("Content-Type") == "" { Set(...) }
DefaultContentType(hd, body) ==
  IF body # "" /\ HeaderGet(hd, "Content-Type") = ""
  THEN HeaderSetKey(hd, "Content-Type", "application/json")
  ELSE hd

\* the *http.Request handed to httpClient.Do for the request r with header entries hs
HTTPRequest(r, hs) ==
  [method |-> r.method, url |-> RequestURL(r.url),
   header |-> DefaultContentType(AddHeaders(<<>>, hs, 1), r.body), body |-> r.body]

\* a Go map[string]string: nil, or made and holding kv
\* the headers of the response the server sends (the first value of each key)
ServerHeaders == [k \in {"Content-Type"} |-> "text/plain"]

\* the maps something still refers to: the Headers of the stored responses and
\* of the caller's result
LiveMaps(hs, res) == {res.headers} \cup {hs[i].response.headers : i \in 1..Len(hs)}

\* a map nothing refers to is garbage; the model keeps it empty
CollectMaps(ms, live) == [a \in 1..Len(ms) |-> IF a \in live THEN ms[a] ELSE <<>>]

\* where make(map[string]string) puts the new map: a new address, or that of
\* the map of the previous result when nothing else refers to it
NewMapAddr ==
  IF result.headers # NilMap /\ result.headers \notin LiveMaps(history, ZeroResponse)
  THEN result.headers ELSE Len(maps) + 1

\* response.Headers = make(map[string]string), filled from httpResp.Header, at a
MakeMap(ms, a, kv) == IF a <= Len(ms) THEN [ms EXCEPT ![a] = kv] ELSE Append(ms, kv)

\* what the network does with a request issued: a response read to its end,
\* a failure of httpClient.Do (DNS, refused, timeout, TLS), or a response whose
\* body cannot be read to its end
NetOutcomes == {"ok", "do_err", "read_err"}

\* time.Since(startTime): some positive duration
Elapsed == 1

\* response.ResponseTime = time.Since(startTime), right after Do returned
ResponseTime(net) == Elapsed

\* a bug: the check of the url is left out
URLMissingNever(url) == FALSE

\* if req.URL == ""
URLMissing(url) == url = ""

\* the *models.Response SendRequest returns for r with header entries hs, when
\* the network (if it is asked) does net
Respond(r, hs, net, a) ==
  IF URLMissing(r.url) THEN [ZeroResponse EXCEPT !.error = "URL is required"]
  ELSE IF NewRequestFails(r.method, RequestURL(r.url))
  THEN [ZeroResponse EXCEPT !.error = "parse: invalid URL escape"]
  ELSE CASE net = "do_err" ->
              [ZeroResponse EXCEPT !.response_time = ResponseTime(net),
                                   !.error = "connection refused"]
         [] net = "read_err" ->
              [ZeroResponse EXCEPT !.response_time = ResponseTime(net),
                                   !.status_code = 200, !.status = "200 OK",
                                   !.headers = a,
                                   !.error = "Failed to read response body: unexpected EOF"]
         [] net = "ok" ->
              [ZeroResponse EXCEPT !.response_time = ResponseTime(net),
                                   !.status_code = 200, !.status = "200 OK",
                                   !.headers = a,
                                   !.body = "pong"]

\* whether SendRequest gets as far as httpClient.Do
Issued(r) == ~URLMissing(r.url) /\ ~NewRequestFails(r.method, RequestURL(r.url))

NoRequest == [method |-> "", url |-> "", header |-> <<>>, body |-> ""]

\* a bug: a request that httpClient.Do failed on is issued a second time
SendRequestRetry(net) ==
  /\ result' = Respond(cur, heap[cur.headers], net, NewMapAddr)
  /\ maps' = CollectMaps(IF Issued(cur) /\ net # "do_err"
                         THEN MakeMap(maps, NewMapAddr, ServerHeaders) ELSE maps,
                         LiveMaps(history, result'))
  /\ wire' = IF Issued(cur)
             THEN [n |-> wire.n + (IF net = "do_err" THEN 2 ELSE 1),
                   last |-> HTTPRequest(cur, heap[cur.headers])]
             ELSE wire
  /\ UNCHANGED <<storeVars, cur, gotT, gotH, ret, added, procVars, retVars>>

\* Client.SendRequest(cur), the network doing net
SendRequest(net) ==
  /\ result' = Respond(cur, heap[cur.headers], net, NewMapAddr)
  /\ maps' = CollectMaps(IF Issued(cur) /\ net # "do_err"
                         THEN MakeMap(maps, NewMapAddr, ServerHeaders) ELSE maps,
                         LiveMaps(history, result'))
  /\ wire' = IF Issued(cur)
             THEN [n |-> wire.n + 1, last |-> HTTPRequest(cur, heap[cur.headers])]
             ELSE wire
  /\ UNCHANGED <<storeVars, cur, gotT, gotH, ret, added, procVars, retVars>>

(***************************************************************************)
(* The store after NewStorage() found no file, and a caller holding        *)
(* NewRequest().                                                           *)
(***************************************************************************)
NumProcs == 3
NumCallers == 2
Procs == 1..NumProcs

\* the locals of a call: the method and its argument, then what it computes
NoLoc == [op |-> "none", arg |-> 0, now |-> 0, i |-> 0, item |-> <<>>, snap |-> <<>>,
          err |-> FALSE, res |-> <<>>]

InitStore ==
  /\ templates = <<>>
  /\ history = <<>>
  /\ heap = << <<>> >>
  /\ nextId = 1
  /\ clock = 1
  /\ tfile = NoFile
  /\ hfile = NoFile
  /\ cur = NewRequest(1)
  /\ gotT = <<>>
  /\ gotH = <<>>
  /\ ret = Ret("NewStorage", FALSE)
  /\ added = <<>>

InitProcs ==
  /\ mu = [writer |-> 0, readers |-> {}]
  /\ pc = [p \in Procs |-> "idle"]
  /\ loc = [p \in Procs |-> NoLoc]

\* no request has been sent
InitNet ==
  /\ result = ZeroResponse
  /\ wire = [n |-> 0, last |-> NoRequest]
  /\ maps = <<>>

\* no spare cell under the empty s.templates, and no pointer handed out
NilPtr == [kind |-> "nil"]

InitRet ==
  /\ tstale = <<>>
  /\ tret = NilPtr

Init == InitStore /\ InitProcs /\ InitNet /\ InitRet

\* a caller rebuilding or editing its live request
CallerStep ==
  \/ \E x \in Inputs : CallerUpdateRequest(x[1], x[2], x[3], x[4])
  \/ \E j \in 1..1 : CallerEditHeader(j)

\* the mutating methods called one after another with every outcome of their
\* file writes, by a caller that keeps changing its live request
Next ==
  \/ \E n \in Names, w \in WriteOutcomes :
       clock <= MaxClock /\ SaveTemplate(n, w)
  \/ \E id \in 1..nextId, w \in WriteOutcomes : DeleteTemplate(id, w)
  \/ \E w \in WriteOutcomes : clock <= MaxClock /\ AddHistory(Response(200, ""), w)
  \/ \E w \in WriteOutcomes : ClearHistory(w)
  \/ CallerStep

Spec == Init /\ [][Next]_vars

\* the methods called one after another, their writes succeeding, by a caller
\* that also changes what the read methods returned to it
NextRead ==
  \/ \E n \in Names : clock <= MaxClock /\ SaveTemplate(n, "ok")
  \/ \E r \in Responses : clock <= MaxClock /\ AddHistory(r, "ok")
  \/ GetTemplates
  \/ GetHistory
  \/ \E x \in Inputs : CallerUpdateRequest(x[1], x[2], x[3], x[4])
  \/ \E i \in 1..NumNames, m \in Methods : CallerSetGotT(i, m)
  \/ \E i \in 1..NumNames, j \in 1..1 : CallerEditGotT(i, j)
  \/ \E i \in 1..MaxClock, m \in Methods : CallerSetGotH(i, m)
  \/ \E i \in 1..MaxClock, j \in 1..1 : CallerEditGotH(i, j)

SpecRead == Init /\ [][NextRead]_vars

\* SaveTemplate and DeleteTemplate alone, on more names, with every outcome of
\* the file writes
NextT ==
  \/ \E n \in 1..NumNamesT, w \in {"ok", "err_partial"} : clock <= MaxSaves /\ SaveTemplate(n, w)
  \/ \E id \in 1..nextId, w \in {"ok", "err_partial"} : DeleteTemplate(id, w)
  \/ \E x \in Inputs : CallerUpdateRequest(x[1], x[2], x[3], x[4])

SpecT == Init /\ [][NextT]_vars

\* AddHistory and ClearHistory alone, often enough to pass the cap
NextCap ==
  \/ \E w \in {"ok", "err_partial"} : nextId <= MaxAdds /\ AddHistory(Response(200, ""), w)
  \/ \E w \in {"ok", "err_partial"} : ClearHistory(w)

SpecCap == Init /\ [][NextCap]_vars

(***************************************************************************)
(* The store's methods run by goroutines, one call each, a step at a time. *)
(* sync.RWMutex: Lock waits until nobody holds the mutex, RLock until no   *)
(* writer holds it. (A waiting Lock also holds back later RLocks; that     *)
(* only removes interleavings and is left out.)                            *)
(***************************************************************************)
\* where a mutating method is after s.mu.Lock()
FirstStep(op) ==
  CASE op = "SaveTemplate" -> "st_find"
    [] op = "DeleteTemplate" -> "dt_find"
    [] op = "AddHistory" -> "ah_item"
    [] op = "ClearHistory" -> "ch_clear"

\* a bug: the method runs without taking the mutex
LockMissing(p, op, arg) ==
  /\ pc[p] = "idle"
  /\ pc' = [pc EXCEPT ![p] = FirstStep(op)]
  /\ loc' = [loc EXCEPT ![p] = [NoLoc EXCEPT !.op = op, !.arg = arg]]
  /\ UNCHANGED <<storeVars, cur, gotT, gotH, ret, added, mu, netVars, retVars>>

\* goroutine p calls the mutating method op: s.mu.Lock(); defer s.mu.Unlock()
Lock(p, op, arg) ==
  /\ pc[p] = "idle"
  /\ mu.writer = 0 /\ mu.readers = {}
  /\ mu' = [mu EXCEPT !.writer = p]
  /\ pc' = [pc EXCEPT ![p] = FirstStep(op)]
  /\ loc' = [loc EXCEPT ![p] = [NoLoc EXCEPT !.op = op, !.arg = arg]]
  /\ UNCHANGED <<storeVars, cur, gotT, gotH, ret, added, netVars, retVars>>

\* the deferred s.mu.Unlock() of a mutating method, and its return
Unlock(p) ==
  /\ pc[p] = "unlock"
  /\ mu' = [mu EXCEPT !.writer = 0]
  /\ pc' = [pc EXCEPT ![p] = "done"]
  /\ UNCHANGED <<storeVars, cur, gotT, gotH, ret, added, loc, netVars, retVars>>

\* goroutine p calls the read method op: s.mu.RLock(); defer s.mu.RUnlock()
RLock(p, op, arg) ==
  /\ pc[p] = "idle"
  /\ mu.writer = 0
  /\ mu' = [mu EXCEPT !.readers = @ \cup {p}]
  /\ pc' = [pc EXCEPT ![p] = "rd_read"]
  /\ loc' = [loc EXCEPT ![p] = [NoLoc EXCEPT !.op = op, !.arg = arg]]
  /\ UNCHANGED <<storeVars, cur, gotT, gotH, ret, added, netVars, retVars>>

\* what the read method op returns from the collections ts and hs
ReadResult(op, arg, ts, hs) ==
  CASE op = "GetTemplates" -> ts
    [] op = "GetHistory" -> hs
    [] op = "TemplateNameExists" -> IndexOfName(ts, arg) # 0
    [] op = "GetTemplateByID" ->
         IF IndexOfID(ts, arg) # 0 THEN <<ts[IndexOfID(ts, arg)]>> ELSE <<>>
    [] op = "GetHistoryByID" ->
         IF \E i \in 1..Len(hs) : hs[i].id = arg
         THEN <<hs[CHOOSE i \in 1..Len(hs) :
                     hs[i].id = arg /\ \A j \in 1..(i - 1) : hs[j].id # arg]>>
         ELSE <<>>

\* the body of a read method: the copy or the search
ReadStep(p) ==
  /\ pc[p] = "rd_read"
  /\ loc' = [loc EXCEPT ![p].res = ReadResult(loc[p].op, loc[p].arg, templates, history)]
  /\ pc' = [pc EXCEPT ![p] = "runlock"]
  /\ UNCHANGED <<storeVars, cur, gotT, gotH, ret, added, mu, netVars, retVars>>

\* the deferred s.mu.RUnlock() of a read method, and its return
RUnlock(p) ==
  /\ pc[p] = "runlock"
  /\ mu' = [mu EXCEPT !.readers = @ \ {p}]
  /\ pc' = [pc EXCEPT ![p] = "done"]
  /\ UNCHANGED <<storeVars, cur, gotT, gotH, ret, added, loc, netVars, retVars>>

\* SaveTemplate: now := time.Now(); the search for the name
StFind(p) ==
  /\ pc[p] = "st_find"
  /\ LET i == IndexOfName(templates, loc[p].arg)
     IN /\ loc' = [loc EXCEPT ![p].now = clock, ![p].i = i]
        /\ pc' = [pc EXCEPT ![p] = IF i # 0 THEN "st_update_req" ELSE "st_new"]
  /\ clock' = clock + 1
  /\ UNCHANGED <<templates, history, heap, nextId, tfile, hfile, cur, gotT, gotH, ret, added, mu, netVars, retVars>>

\* SaveTemplate: s.templates[i].Request = *req.Clone()
StUpdateReq(p) ==
  /\ pc[p] = "st_update_req"
  /\ loc[p].i \in 1..Len(templates)
  /\ templates' = SetRequest(templates, loc[p].i, Clone(heap, cur))
  /\ heap' = CloneHeap(heap, cur)
  /\ pc' = [pc EXCEPT ![p] = "st_update_time"]
  /\ UNCHANGED <<history, nextId, clock, tfile, hfile, cur, gotT, gotH, ret, added, mu, loc, netVars, retVars>>

\* SaveTemplate: s.templates[i].UpdatedAt = now
StUpdateTime(p) ==
  /\ pc[p] = "st_update_time"
  /\ loc[p].i \in 1..Len(templates)
  /\ templates' = SetUpdatedAt(templates, loc[p].i, loc[p].now)
  /\ pc' = [pc EXCEPT ![p] = "save_t"]
  /\ UNCHANGED <<history, heap, nextId, clock, tfile, hfile, cur, gotT, gotH, ret, added, mu, loc, netVars, retVars>>

\* SaveTemplate: template := models.Template{...}
StNew(p) ==
  /\ pc[p] = "st_new"
  /\ loc' = [loc EXCEPT ![p].item = NewTemplate(nextId, loc[p].arg, Clone(heap, cur), loc[p].now)]
  /\ heap' = CloneHeap(heap, cur)
  /\ nextId' = nextId + 1
  /\ pc' = [pc EXCEPT ![p] = "st_append"]
  /\ UNCHANGED <<templates, history, clock, tfile, hfile, cur, gotT, gotH, ret, added, mu, netVars, retVars>>

\* SaveTemplate: s.templates = append(s.templates, template)
StAppend(p) ==
  /\ pc[p] = "st_append"
  /\ templates' = Append(templates, loc[p].item)
  /\ pc' = [pc EXCEPT ![p] = "st_sort"]
  /\ UNCHANGED <<history, heap, nextId, clock, tfile, hfile, cur, gotT, gotH, ret, added, mu, loc, netVars, retVars>>

\* SaveTemplate: sort.Slice(s.templates, ...)
StSort(p) ==
  /\ pc[p] = "st_sort"
  /\ templates' \in SortSlice(templates)
  /\ pc' = [pc EXCEPT ![p] = "save_t"]
  /\ UNCHANGED <<history, heap, nextId, clock, tfile, hfile, cur, gotT, gotH, ret, added, mu, loc, netVars, retVars>>

\* DeleteTemplate: the search for the id and the removal
DtFind(p) ==
  /\ pc[p] = "dt_find"
  /\ LET i == IndexOfID(templates, loc[p].arg)
     IN IF i # 0
        THEN /\ templates' = RemoveAt(templates, i)
             /\ pc' = [pc EXCEPT ![p] = "save_t"]
        ELSE /\ templates' = templates
             /\ pc' = [pc EXCEPT ![p] = "unlock"]
  /\ UNCHANGED <<history, heap, nextId, clock, tfile, hfile, cur, gotT, gotH, ret, added, mu, loc, netVars, retVars>>

\* s.saveTemplates() and the error it returns, the write ending as w
SaveTemplatesStep(p, w) ==
  /\ pc[p] = "save_t"
  /\ tfile' = WriteFile(tfile, MarshalTemplates(heap, templates), w)
  /\ loc' = [loc EXCEPT ![p].err = WriteErr(w)]
  /\ pc' = [pc EXCEPT ![p] = "unlock"]
  /\ UNCHANGED <<templates, history, heap, nextId, clock, hfile, cur, gotT, gotH, ret, added, mu, netVars, retVars>>

\* AddHistory: item := models.HistoryItem{...}
AhItem(p) ==
  /\ pc[p] = "ah_item"
  /\ LET item == NewHistoryItem(nextId, Clone(heap, cur), loc[p].arg, clock)
     IN /\ loc' = [loc EXCEPT ![p].item = item]
        /\ added' = Append(added, item)
  /\ heap' = CloneHeap(heap, cur)
  /\ nextId' = nextId + 1
  /\ clock' = clock + 1
  /\ pc' = [pc EXCEPT ![p] = "ah_read"]
  /\ UNCHANGED <<templates, history, tfile, hfile, cur, gotT, gotH, ret, mu, netVars, retVars>>

\* AddHistory: append([]models.HistoryItem{item}, s.history...) reads s.history
AhRead(p) ==
  /\ pc[p] = "ah_read"
  /\ loc' = [loc EXCEPT ![p].snap = Prepend(loc[p].item, history)]
  /\ pc' = [pc EXCEPT ![p] = "ah_write"]
  /\ UNCHANGED <<storeVars, cur, gotT, gotH, ret, added, mu, netVars, retVars>>

\* AddHistory: s.history = (the new slice)
AhWrite(p) ==
  /\ pc[p] = "ah_write"
  /\ history' = loc[p].snap
  /\ pc' = [pc EXCEPT ![p] = "ah_trunc"]
  /\ UNCHANGED <<templates, heap, nextId, clock, tfile, hfile, cur, gotT, gotH, ret, added, mu, loc, netVars, retVars>>

\* AddHistory: the cap
AhTrunc(p) ==
  /\ pc[p] = "ah_trunc"
  /\ history' = Truncate(history)
  /\ pc' = [pc EXCEPT ![p] = "save_h"]
  /\ UNCHANGED <<templates, heap, nextId, clock, tfile, hfile, cur, gotT, gotH, ret, added, mu, loc, netVars, retVars>>

\* a bug: ClearHistory empties the templates as well
ChClearAll(p) ==
  /\ pc[p] = "ch_clear"
  /\ history' = <<>>
  /\ templates' = <<>>
  /\ added' = <<>>
  /\ pc' = [pc EXCEPT ![p] = "save_h"]
  /\ UNCHANGED <<heap, nextId, clock, tfile, hfile, cur, gotT, gotH, ret, mu, loc, netVars, retVars>>

\* ClearHistory: s.history = []models.HistoryItem{}
ChClear(p) ==
  /\ pc[p] = "ch_clear"
  /\ history' = <<>>
  /\ added' = <<>>
  /\ pc' = [pc EXCEPT ![p] = "save_h"]
  /\ UNCHANGED <<templates, heap, nextId, clock, tfile, hfile, cur, gotT, gotH, ret, mu, loc, netVars, retVars>>

\* s.saveHistory() and the error it returns, the write ending as w
SaveHistoryStep(p, w) ==
  /\ pc[p] = "save_h"
  /\ hfile' = WriteFile(hfile, MarshalHistory(heap, history), w)
  /\ loc' = [loc EXCEPT ![p].err = WriteErr(w)]
  /\ pc' = [pc EXCEPT ![p] = "unlock"]
  /\ UNCHANGED <<templates, history, heap, nextId, clock, tfile, cur, gotT, gotH, ret, added, mu, netVars, retVars>>

\* a step inside a call that is under way
CallStep(p) ==
  \/ StFind(p)
  \/ StUpdateReq(p)
  \/ StUpdateTime(p)
  \/ StNew(p)
  \/ StAppend(p)
  \/ StSort(p)
  \/ DtFind(p)
  \/ \E w \in {"ok", "err_partial"} : SaveTemplatesStep(p, w)
  \/ AhItem(p)
  \/ AhRead(p)
  \/ AhWrite(p)
  \/ AhTrunc(p)
  \/ ChClear(p)
  \/ \E w \in {"ok", "err_partial"} : SaveHistoryStep(p, w)
  \/ Unlock(p)
  \/ ReadStep(p)
  \/ RUnlock(p)

\* no goroutine has called the store yet
NoneStarted == \A p \in Procs : pc[p] = "idle"
AllDone == \A p \in Procs : pc[p] = "done"

\* every goroutine calls one method of the store, any of them, concurrently,
\* after the caller has entered a request
NextConc ==
  \/ \E x \in Inputs : NoneStarted /\ CallerUpdateRequest(x[1], x[2], x[3], x[4])
  \/ \E p \in 1..NumCallers, n \in Names : Lock(p, "SaveTemplate", n)
  \/ \E p \in 1..NumCallers, id \in 1..NumCallers : Lock(p, "DeleteTemplate", id)
  \/ \E p \in 1..NumCallers : Lock(p, "AddHistory", Response(200 + p, ""))
  \/ \E p \in 1..NumCallers : Lock(p, "ClearHistory", 0)
  \/ \E p \in 1..NumCallers : RLock(p, "GetTemplates", 0)
  \/ \E p \in 1..NumCallers : RLock(p, "GetHistory", 0)
  \/ \E p \in 1..NumCallers, n \in Names : RLock(p, "TemplateNameExists", n)
  \/ \E p \in 1..NumCallers, id \in 1..NumCallers : RLock(p, "GetTemplateByID", id)
  \/ \E p \in 1..NumCallers, id \in 1..NumCallers : RLock(p, "GetHistoryByID", id)
  \/ \E p \in 1..NumCallers : CallStep(p)

SpecConc == Init /\ [][NextConc]_vars

\* AddHistory called again and again by one goroutine, then once by every
\* goroutine concurrently, each with its own response
NextConcAdd ==
  \/ \E w \in {"ok"} :
       NoneStarted /\ nextId <= maxHistoryItems /\ AddHistory(Response(200, ""), w)
  \/ \E p \in Procs : Lock(p, "AddHistory", Response(200 + p, ""))
  \/ \E p \in Procs : AhItem(p)
  \/ \E p \in Procs : AhRead(p)
  \/ \E p \in Procs : AhWrite(p)
  \/ \E p \in Procs : AhTrunc(p)
  \/ \E p \in Procs, w \in {"ok", "err_partial"} : SaveHistoryStep(p, w)
  \/ \E p \in Procs : Unlock(p)

SpecConcAdd == Init /\ [][NextConcAdd]_vars

(***************************************************************************)
(* Loading: json.Unmarshal of the two files and NewStorage over a data     *)
(* directory that already holds files (a restart of the program).          *)
(***************************************************************************)
\* a bug: the enabled flag is not read back (every loaded header is enabled)
UnmarshalHeapEnabled(h, data) ==
  h \o [i \in 1..Len(data) |->
         [j \in 1..Len(data[i].request.headers) |->
            [data[i].request.headers[j] EXCEPT !.enabled = TRUE]]]

\* the arrays json.Unmarshal allocates for the Headers of the records of data,
\* appended to h in the order of the records
UnmarshalHeap(h, data) == h \o [i \in 1..Len(data) |-> data[i].request.headers]

\* the Request decoded from the object r, its Headers slice at address a
UnmarshalRequest(r, a) == [method |-> r.method, url |-> r.url, headers |-> a, body |-> r.body]

\* the Response decoded from the object r: a key that is absent leaves the
\* field at its zero value
UnmarshalResponse(r, a) ==
  [status_code |-> r.status_code, status |-> r.status,
   headers |-> IF r.headers = "null" THEN NilMap ELSE a,
   body |-> r.body, response_time |-> r.response_time,
   error |-> IF "error" \in DOMAIN r THEN r.error ELSE ""]

\* the records of data up to the i-th whose response has a headers object:
\* json.Unmarshal makes one map for each, in the order of the records
WithMap(data, i) == { j \in 1..i : data[j].response.headers # "null" }

\* the maps of a process that has loaded the history records data
UnmarshalMaps(data) ==
  [a \in 1..Cardinality(WithMap(data, Len(data))) |->
     data[CHOOSE j \in WithMap(data, Len(data)) : Cardinality(WithMap(data, j)) = a]
       .response.headers]

\* json.Unmarshal(data, &s.templates) on a well-formed file
UnmarshalTemplates(h, data) ==
  [i \in 1..Len(data) |->
     [id |-> data[i].id, name |-> data[i].name,
      request |-> UnmarshalRequest(data[i].request, Len(h) + i),
      createdAt |-> data[i].created_at, updatedAt |-> data[i].updated_at]]

\* json.Unmarshal(data, &s.history) on a well-formed file
UnmarshalHistory(h, data) ==
  [i \in 1..Len(data) |->
     [id |-> data[i].id, request |-> UnmarshalRequest(data[i].request, Len(h) + i),
      response |-> UnmarshalResponse(data[i].response, Cardinality(WithMap(data, i))),
      timestamp |-> data[i].timestamp]]

\* what a load returns: the heap, the collection, and whether err != nil
Loaded(h, val, err) == [heap |-> h, val |-> val, err |-> err]

\* Storage.loadTemplates on the heap h: a missing file is no error and leaves
\* the empty collection; a file that does not parse is an error and leaves it too
loadTemplates(h, file) ==
  CASE file.kind = "absent" -> Loaded(h, <<>>, FALSE)
    [] file.kind = "partial" -> Loaded(h, <<>>, TRUE)
    [] file.kind = "data" ->
         Loaded(UnmarshalHeap(h, file.data), UnmarshalTemplates(h, file.data), FALSE)

\* Storage.loadHistory on the heap h
loadHistory(h, file) ==
  CASE file.kind = "absent" -> Loaded(h, <<>>, FALSE)
    [] file.kind = "partial" -> Loaded(h, <<>>, TRUE)
    [] file.kind = "data" ->
         Loaded(UnmarshalHeap(h, file.data), UnmarshalHistory(h, file.data), FALSE)

\* the maps Storage.loadHistory allocates in a fresh process
loadHistoryMaps(file) == IF file.kind = "data" THEN UnmarshalMaps(file.data) ELSE <<>>

\* s.loadTemplates(); s.loadHistory(); return s, nil: the results of both
\* loads are dropped
LoadErr(terr, herr) == FALSE

\* the program is started again: NewStorage() over the data directory as it
\* is, and a caller holding NewRequest(). Nothing of the old process's memory
\* is left; uuid.New() and time.Now() go on.
NewStorage ==
  LET t == loadTemplates(<< <<>> >>, tfile)
      h == loadHistory(t.heap, hfile)
  IN /\ templates' = t.val
     /\ history' = h.val
     /\ heap' = h.heap
     /\ cur' = NewRequest(1)
     /\ gotT' = <<>>
     /\ gotH' = <<>>
     /\ ret' = Ret("NewStorage", LoadErr(t.err, h.err))
     /\ added' = <<>>
     /\ maps' = loadHistoryMaps(hfile)
     /\ result' = ZeroResponse
     /\ UNCHANGED <<nextId, clock, tfile, hfile, procVars, wire, retVars>>

\* the number of AddHistory calls after a history file was found
MaxFoundAdds == 3

\* a history.json with k records, newest first, as NewStorage can find it in
\* the data directory (written by this program or put there otherwise); the
\* ids and times of its records are older than any the running program makes
FoundHistory(k) ==
  [i \in 1..k |->
     [id |-> k - i + 1,
      request |-> [method |-> "GET", url |-> "example.com/x", headers |-> <<>>, body |-> ""],
      response |-> MarshalResponseIn(<<>>, Response(200, "")),
      timestamp |-> k - i + 1]]

FoundHistoryFiles ==
  {NoFile, PartialFile}
    \cup {FileOf(FoundHistory(k)) : k \in {0, 1, maxHistoryItems, maxHistoryItems + 1}}

\* the store after NewStorage() over a data directory that holds one of the
\* history files above and no templates.json
InitFound ==
  \E f \in FoundHistoryFiles :
    LET h == loadHistory(<< <<>> >>, f)
    IN /\ templates = <<>>
       /\ history = h.val
       /\ heap = h.heap
       /\ nextId = maxHistoryItems + 2
       /\ clock = maxHistoryItems + 2
       /\ tfile = NoFile
       /\ hfile = f
       /\ cur = NewRequest(1)
       /\ gotT = <<>>
       /\ gotH = <<>>
       /\ ret = Ret("NewStorage", LoadErr(FALSE, h.err))
       /\ added = <<>>
       /\ InitProcs
       /\ InitNet
       /\ InitRet

\* the history methods and restarts on a data directory found with a history file
NextFound ==
  \/ \E w \in {"ok", "err_partial"} :
       nextId <= maxHistoryItems + 1 + MaxFoundAdds /\ AddHistory(Response(200, ""), w)
  \/ \E w \in {"ok", "err_partial"} : ClearHistory(w)
  \/ NewStorage

SpecFound == InitFound /\ [][NextFound]_vars

\* what the caller enters before it saves a template: nothing, or a request
\* with two header rows
InputsLoad ==
  { <<"GET", "", <<>>, "">>,
    <<"POST", "example.com/x",
      <<Header("Accept", "text/plain", TRUE), Header("X-Id", "1", FALSE)>>, "{}">> }

\* the template methods with every outcome of their writes, a caller changing
\* its request, and restarts of the program
NextLoad ==
  \/ \E n \in Names, w \in WriteOutcomes : clock <= MaxClock /\ SaveTemplate(n, w)
  \/ \E id \in 1..nextId, w \in WriteOutcomes : DeleteTemplate(id, w)
  \/ \E x \in InputsLoad : CallerUpdateRequest(x[1], x[2], x[3], x[4])
  \/ \E j \in 1..2 : CallerEditHeader(j)
  \/ NewStorage

SpecLoad == Init /\ [][NextLoad]_vars

\* a caller holding any request of the model, and the store after NewStorage()
InitSend ==
  \E m \in Methods, u \in URLs, hl \in HeaderLists, b \in Bodies :
    /\ templates = <<>>
    /\ history = <<>>
    /\ heap = <<hl>>
    /\ nextId = 1
    /\ clock = 1
    /\ tfile = NoFile
    /\ hfile = NoFile
    /\ cur = [method |-> m, url |-> u, headers |-> 1, body |-> b]
    /\ gotT = <<>>
    /\ gotH = <<>>
    /\ ret = Ret("NewStorage", FALSE)
    /\ added = <<>>
    /\ InitProcs
    /\ InitNet
    /\ InitRet

\* the request is sent, the network doing any of the things it can
NextSend ==
  \E net \in NetOutcomes : wire.n < MaxSends /\ SendRequest(net)

SpecSend == InitSend /\ [][NextSend]_vars

(***************************************************************************)
(* The stored collections by value: every record with the header entries   *)
(* its request's slice currently holds.                                    *)
(***************************************************************************)
DeepT == MarshalTemplates(heap, templates)
DeepH == MarshalHistory(heap, history)

\* C1: in every state reached from the empty store by SaveTemplate and
\* DeleteTemplate calls (failed writes included), no two templates in memory
\* have the same name.
C1_UniqueNames ==
  \A i, j \in 1..Len(templates) : i # j => templates[i].name # templates[j].name

\* C1 witness: several templates are held and the last call's write failed
C1_Witness == Len(templates) >= 2 /\ ret.op = "SaveTemplate" /\ ret.err

\* C2: SaveTemplate(name, spec2) on an existing name keeps the number of
\* templates, keeps that template's id, createdAt and name, stores a copy equal
\* to spec2 in its own slice, and leaves every other template as it was.
C2_UpdateInPlace ==
  [][\A n \in 1..NumNamesT :
       (\E w \in WriteOutcomes : SaveTemplate(n, w)) /\ IndexOfName(templates, n) # 0
       => LET i == IndexOfName(templates, n)
          IN /\ Len(templates') = Len(templates)
             /\ templates'[i].id = templates[i].id
             /\ templates'[i].createdAt = templates[i].createdAt
             /\ templates'[i].name = n
             /\ MarshalRequest(heap', templates'[i].request) = MarshalRequest(heap, cur)
             /\ templates'[i].request.headers # cur.headers
             /\ \A j \in 1..Len(templates) :
                  j # i => /\ templates'[j] = templates[j]
                           /\ DeepT'[j] = DeepT[j]]_vars

\* C2 witness: a template has been updated in place with a request that differs
\* from another stored one
C2_Witness ==
  \E i, j \in 1..Len(templates) :
     /\ templates[i].updatedAt > templates[i].createdAt
     /\ DeepT[i].request # DeepT[j].request

\* C10: in every state reached from the empty store by SaveTemplate and
\* DeleteTemplate calls, the templates in memory are in ascending order of name.
C10_SortedByName ==
  \A i, j \in 1..Len(templates) : i < j => templates[i].name <= templates[j].name

\* C10 witness: three templates, not in the order they were created, after a
\* delete has left an id unused
C10_Witness ==
  /\ Len(templates) >= 3
  /\ \E i, j \in 1..Len(templates) : i < j /\ templates[i].id > templates[j].id
  /\ \E id \in 1..(nextId - 1) : IndexOfID(templates, id) = 0

\* C3: the history in memory is exactly the min(k, 50) items added last since
\* the last ClearHistory, newest first (k the number of AddHistory calls since).
C3_NewestFirstCapped ==
  LET k == Len(added)
      n == Min(k, maxHistoryItems)
  IN /\ Len(history) = n
     /\ \A i \in 1..n : history[i] = added[k - i + 1]

\* C3 witness: 60 AddHistory calls in a row have left the 50 added last
C3_Witness ==
  /\ Len(added) = 60
  /\ Len(history) = 50
  /\ history[50].id = added[11].id

\* C6 (as claimed): nothing a caller does to a sequence GetTemplates or
\* GetHistory returned, or to the header entries of its elements' requests,
\* changes what the store holds (and so what a later call returns).
C6_ReturnedIsolated ==
  [][(\/ \E i \in 1..NumNames, m \in Methods : CallerSetGotT(i, m)
      \/ \E i \in 1..NumNames, j \in 1..1 : CallerEditGotT(i, j)
      \/ \E i \in 1..MaxClock, m \in Methods : CallerSetGotH(i, m)
      \/ \E i \in 1..MaxClock, j \in 1..1 : CallerEditGotH(i, j))
     => DeepT' = DeepT /\ DeepH' = DeepH]_vars

\* C7: once SaveTemplate or AddHistory has returned, no change the caller makes
\* to its request (fields set, header slice rebuilt, header entry edited in
\* place) changes a stored template's or history item's request.
C7_StoredCopyIndependent ==
  [][CallerStep => DeepT' = DeepT /\ DeepH' = DeepH]_vars

\* C7 witness: a template and a history item hold the header enabled, and the
\* caller has since disabled it in its own request
C7_Witness ==
  /\ heap[cur.headers] = <<Header("Accept", "text/plain", FALSE)>>
  /\ \E i \in 1..Len(templates) :
       DeepT[i].request.headers = <<Header("Accept", "text/plain", TRUE)>>
  /\ \E j \in 1..Len(history) :
       DeepH[j].request.headers = <<Header("Accept", "text/plain", TRUE)>>

FailedWrites == WriteOutcomes \ {"ok"}

\* the step is the return of a call of the mutating method op: the method
\* names itself in ret, and either reads the clock or leaves the caller's
\* request alone (every step of a call of op is such a step; a caller's change
\* of its request between two calls is not)
Returned(op) == ret'.op = op /\ (clock' # clock \/ cur' = cur)

\* C8 (as claimed): a mutating call whose file write fails returns an error and
\* keeps its change in memory, so that memory and disk differ, and the file
\* still holds what the last successful write left.
C8_FailedWriteKeepsFile ==
  [][/\ Returned("SaveTemplate")
        => \A w \in FailedWrites, n \in Names :
             SaveTemplate(n, w)
             => /\ ret'.err
                /\ IndexOfName(templates', n) # 0
                /\ DeepT'[IndexOfName(templates', n)].request = MarshalRequest(heap, cur)
                /\ tfile' = tfile
                /\ tfile' # FileOf(DeepT')
     /\ Returned("DeleteTemplate")
        => \A w \in FailedWrites, id \in 1..nextId :
             DeleteTemplate(id, w)
             => /\ ret'.err
                /\ IndexOfID(templates', id) = 0
                /\ Len(templates') = Len(templates) - 1
                /\ tfile' = tfile
                /\ tfile' # FileOf(DeepT')
     /\ Returned("AddHistory")
        => \A w \in FailedWrites, r \in Responses :
             AddHistory(r, w)
             => /\ ret'.err
                /\ Len(history') > 0 /\ history'[1].id = nextId
                /\ hfile' = hfile
                /\ hfile' # FileOf(DeepH')
     /\ Returned("ClearHistory")
        => \A w \in FailedWrites :
             ClearHistory(w)
             => /\ ret'.err
                /\ history' = <<>>
                /\ hfile' = hfile
                /\ hfile' # FileOf(DeepH')]_vars

\* C8 (amended): a mutating call whose file write fails returns an error and
\* keeps its change in memory; the file is left as it was before the call or
\* partially written; after a failed SaveTemplate or AddHistory memory and
\* disk differ.
C8_FailedWriteKeepsMemory ==
  [][/\ Returned("SaveTemplate")
        => \A w \in FailedWrites, n \in Names :
             SaveTemplate(n, w)
             => /\ ret'.err
                /\ IndexOfName(templates', n) # 0
                /\ DeepT'[IndexOfName(templates', n)].request = MarshalRequest(heap, cur)
                /\ tfile' \in {tfile, PartialFile}
                /\ tfile' # FileOf(DeepT')
     /\ Returned("DeleteTemplate")
        => \A w \in FailedWrites, id \in 1..nextId :
             DeleteTemplate(id, w)
             => /\ ret'.err
                /\ IndexOfID(templates', id) = 0
                /\ Len(templates') = Len(templates) - 1
                /\ tfile' \in {tfile, PartialFile}
     /\ Returned("AddHistory")
        => \A w \in FailedWrites, r \in Responses :
             AddHistory(r, w)
             => /\ ret'.err
                /\ Len(history') > 0 /\ history'[1].id = nextId
                /\ hfile' \in {hfile, PartialFile}
                /\ hfile' # FileOf(DeepH')
     /\ Returned("ClearHistory")
        => \A w \in FailedWrites :
             ClearHistory(w)
             => /\ ret'.err
                /\ history' = <<>>
                /\ hfile' \in {hfile, PartialFile}]_vars

\* C8 witness: a SaveTemplate has failed; memory holds its template, the file
\* still holds the collection an earlier call wrote
C8_Witness ==
  /\ ret = Ret("SaveTemplate", TRUE)
  /\ tfile.kind = "data"
  /\ Len(templates) = Len(tfile.data) + 1

\* a file agrees with a collection when it holds it; no file agrees with the
\* empty collection
Agrees(file, deep) == file = FileOf(deep) \/ (file = NoFile /\ deep = <<>>)

\* C9 (as claimed): after every mutating call that returns without error, the
\* collection's file holds the collection in memory, record for record.
C9_FileEqualsMemory ==
  [][/\ /\ ~ret'.err
        /\ \/ Returned("SaveTemplate")
                /\ \E w \in WriteOutcomes, n \in Names : SaveTemplate(n, w)
           \/ Returned("DeleteTemplate")
                /\ \E w \in WriteOutcomes, id \in 1..nextId : DeleteTemplate(id, w)
        => Agrees(tfile', DeepT')
     /\ /\ ~ret'.err
        /\ \/ Returned("AddHistory")
                /\ \E w \in WriteOutcomes, r \in Responses : AddHistory(r, w)
           \/ Returned("ClearHistory")
                /\ \E w \in WriteOutcomes : ClearHistory(w)
        => Agrees(hfile', DeepH')]_vars

\* C9 (amended): after every SaveTemplate, AddHistory, ClearHistory, and
\* DeleteTemplate of an id that matches a template, that returns without
\* error, the collection's file holds the collection in memory, record for
\* record and in order (whatever the file held before).
C9_WrittenFileEqualsMemory ==
  [][/\ /\ ~ret'.err
        /\ \/ Returned("SaveTemplate")
                /\ \E w \in WriteOutcomes, n \in Names : SaveTemplate(n, w)
           \/ Returned("DeleteTemplate")
                /\ \E w \in WriteOutcomes, id \in 1..nextId :
                      IndexOfID(templates, id) # 0 /\ DeleteTemplate(id, w)
        => tfile' = FileOf(DeepT')
     /\ /\ ~ret'.err
        /\ \/ Returned("AddHistory")
                /\ \E w \in WriteOutcomes, r \in Responses : AddHistory(r, w)
           \/ Returned("ClearHistory")
                /\ \E w \in WriteOutcomes : ClearHistory(w)
        => hfile' = FileOf(DeepH')]_vars

\* C9 witness: a DeleteTemplate has removed a template and returned no error,
\* and templates.json holds the template that is left
C9_Witness ==
  /\ ret = Ret("DeleteTemplate", FALSE)
  /\ Len(templates) = 1
  /\ nextId = 3
  /\ tfile = FileOf(DeepT)

\* C4: N concurrent AddHistory calls with distinct entries, in any
\* interleaving, end with min(N, 50) entries (min(k + N, 50) when k were added
\* before), every entry one that was added, none twice, and each of the N
\* there exactly once (N <= 50).
C4_ConcurrentAdds ==
  AllDone =>
    /\ Len(history) = Min(Len(added), maxHistoryItems)
    /\ \A p \in Procs :
         Cardinality({i \in 1..Len(history) : history[i] = loc[p].item}) = 1
    /\ \A i \in 1..Len(history) : \E k \in 1..Len(added) : history[i] = added[k]
    /\ \A i, j \in 1..Len(history) : i # j => history[i].id # history[j].id
    /\ \A p, q \in Procs : p # q => loc[p].item # loc[q].item

\* C4 witness: every goroutine has added to the empty history, and the item
\* of the goroutine that came last is on top of the one that came first
C4_Witness ==
  /\ AllDone
  /\ Len(added) = NumProcs
  /\ Len(history) = NumProcs
  /\ history[1] = loc[1].item
  /\ history[NumProcs] = loc[NumProcs].item

\* the positions of a mutating method between Lock and Unlock, and of a read
\* method between RLock and RUnlock
WriterCS == {"st_find", "st_update_req", "st_update_time", "st_new", "st_append", "st_sort",
             "dt_find", "save_t", "ah_item", "ah_read", "ah_write", "ah_trunc", "ch_clear",
             "save_h", "unlock"}
ReaderCS == {"rd_read", "runlock"}

\* C5: a mutating method holds the exclusive lock from before its change in
\* memory until after its file write, and a read method holds the shared lock:
\* while one goroutine is inside a mutating method no other is inside any
\* method, and while one is inside a read method none is inside a mutating one.
C5_LockDiscipline ==
  \A p \in Procs :
    /\ pc[p] \in WriterCS
       => /\ mu.writer = p
          /\ mu.readers = {}
          /\ \A q \in Procs \ {p} : pc[q] \notin (WriterCS \cup ReaderCS)
    /\ pc[p] \in ReaderCS
       => /\ p \in mu.readers
          /\ mu.writer = 0
          /\ \A q \in Procs : pc[q] \notin WriterCS

\* C5 witness: a SaveTemplate has inserted its template and is about to write
\* the file, after another goroutine's GetTemplates returned the empty list
C5_Witness ==
  \E p, q \in Procs :
    /\ pc[p] = "save_t" /\ loc[p].op = "SaveTemplate"
    /\ Len(templates) = 1 /\ tfile = NoFile
    /\ pc[q] = "done" /\ loc[q].op = "GetTemplates" /\ loc[q].res = <<>>

C12_DeleteTemplate ==
  [][Returned("DeleteTemplate")
     => \A w \in WriteOutcomes, id \in 1..nextId :
          WriteErr(w) = ret'.err /\ IndexOfID(templates', id) = 0 /\ DeleteTemplate(id, w)
          => IF \A i \in 1..Len(templates) : templates[i].id # id
             THEN /\ ~ret'.err
                  /\ templates' = templates
                  /\ DeepT' = DeepT
                  /\ tfile' = tfile
             ELSE /\ \E i \in 1..Len(templates) :
                       /\ templates[i].id = id
                       /\ Len(templates') = Len(templates) - 1
                       /\ \A j \in 1..(i - 1) :
                            /\ templates'[j] = templates[j]
                            /\ heap'[templates'[j].request.headers]
                                 = heap[templates[j].request.headers]
                       /\ \A j \in i..(Len(templates) - 1) :
                            /\ templates'[j] = templates[j + 1]
                            /\ heap'[templates'[j].request.headers]
                                 = heap[templates[j + 1].request.headers]
                  /\ w = "ok" => ~ret'.err /\ tfile' = FileOf(DeepT')
                  /\ w # "ok" => ret'.err]_vars

\* C12 witness: of three templates the first was deleted; the two that are left
\* are in memory and in templates.json in their order
C12_Witness ==
  /\ ret = Ret("DeleteTemplate", FALSE)
  /\ nextId = 4
  /\ Len(templates) = 2
  /\ templates[1].name = 2 /\ templates[2].name = 3
  /\ tfile = FileOf(DeepT)

\* C13 (as claimed): when templates.json or history.json exists but does not
\* parse, NewStorage returns the load error to its caller.
C13_LoadErrorPropagated ==
  [][ret'.op = "NewStorage" /\ NewStorage
       /\ (tfile.kind = "partial" \/ hfile.kind = "partial")
     => ret'.err]_vars

\* C14: ClearHistory leaves the history in memory empty, whatever it held, and
\* when its write succeeds history.json holds the empty array; the templates
\* in memory and templates.json are as before.
C14_ClearHistory ==
  [][Returned("ClearHistory")
     => \A w \in WriteOutcomes :
          ClearHistory(w)
          => /\ history' = <<>>
             /\ w = "ok" => ~ret'.err /\ hfile' = FileOf(<<>>)
             /\ templates' = templates
             /\ DeepT' = DeepT
             /\ tfile' = tfile]_vars

\* C14 witness: ClearHistory has returned without error in a store that holds
\* a template; the history is empty in memory and in history.json
C14_Witness ==
  /\ ret = Ret("ClearHistory", FALSE)
  /\ history = <<>>
  /\ hfile = FileOf(<<>>)
  /\ Len(templates) = 1
  /\ nextId = 3
  /\ tfile = FileOf(DeepT)

C16_EmptyURL ==
  [][cur.url = ""
     => \A net \in NetOutcomes :
          SendRequest(net)
          => /\ result' = [ZeroResponse EXCEPT !.error = "URL is required"]
             /\ wire' = wire]_vars

\* C16 witness: a request with a body and an enabled header but no url was
\* sent: the error is returned and nothing went out
C16_Witness ==
  /\ cur.url = ""
  /\ cur.body # ""
  /\ \E i \in 1..Len(heap[cur.headers]) :
       heap[cur.headers][i].enabled /\ heap[cur.headers][i].key = "Accept"
  /\ result.error = "URL is required"
  /\ wire.n = 0

C18_ElapsedSet ==
  [][\A net \in NetOutcomes :
       SendRequest(net) => (result'.response_time = 0 <=> cur.url = "")]_vars

\* the enabled entries of hs whose key is Content-Type (header names do not
\* depend on case)
ContentTypeEntries(hs) ==
  { i \in 1..Len(hs) : hs[i].enabled /\ CanonicalKey(hs[i].key) = "Content-Type" }

\* C19 (as claimed): in the request issued, Content-Type is the value of the
\* enabled Content-Type entry (the last one if several), whatever that value
\* is; without such an entry it is application/json if the body is not empty
\* and absent if the body is empty.
C19_ContentType ==
  [][Issued(cur)
     => \A net \in NetOutcomes :
          SendRequest(net)
          => LET hs == heap[cur.headers]
                 ct == ContentTypeEntries(hs)
                 out == wire'.last.header
             IN /\ ct # {}
                   => /\ "Content-Type" \in DOMAIN out
                      /\ out["Content-Type"] =
                           hs[CHOOSE i \in ct : \A j \in ct : j <= i].value
                /\ ct = {} /\ cur.body # ""
                   => /\ "Content-Type" \in DOMAIN out
                      /\ out["Content-Type"] = "application/json"
                /\ ct = {} /\ cur.body = "" => "Content-Type" \notin DOMAIN out]_vars

\* the entries of hs that are enabled, in their order
EnabledOnly(hs) == SelectSeq(hs, LAMBDA x : x.enabled)

\* C20 (as claimed): no disabled entry's key and value are a header of the
\* request issued, and the request's header list is unchanged after SendRequest.
C20_DisabledNeverSent ==
  [][\A net \in NetOutcomes :
       SendRequest(net)
       => /\ heap' = heap /\ cur' = cur
          /\ Issued(cur)
             => \A i \in 1..Len(heap[cur.headers]) :
                  LET x == heap[cur.headers][i]
                      out == wire'.last.header
                  IN ~x.enabled
                     => ~(CanonicalKey(x.key) \in DOMAIN out /\ out[CanonicalKey(x.key)] = x.value)]_vars

\* C20 (amended): the request issued is the one the enabled entries alone
\* give: it is the same as for the list without its disabled entries. A
\* disabled entry's key and value are a header of it only if an enabled entry
\* of the same key has that value or they are the default Content-Type of a
\* request with a body. The request's header list is unchanged after
\* SendRequest.
C20_DisabledIgnored ==
  [][\A net \in NetOutcomes :
       SendRequest(net)
       => /\ heap' = heap /\ cur' = cur
          /\ Issued(cur)
             => LET hs == heap[cur.headers]
                    out == wire'.last.header
                IN /\ wire'.last = HTTPRequest(cur, EnabledOnly(hs))
                   /\ \A i \in 1..Len(hs) :
                        ~hs[i].enabled /\ CanonicalKey(hs[i].key) \in DOMAIN out
                          /\ out[CanonicalKey(hs[i].key)] = hs[i].value
                        => \/ \E j \in 1..Len(hs) :
                                /\ hs[j].enabled
                                /\ CanonicalKey(hs[j].key) = CanonicalKey(hs[i].key)
                                /\ hs[j].value = hs[i].value
                           \/ /\ CanonicalKey(hs[i].key) = "Content-Type"
                              /\ hs[i].value = "application/json"
                              /\ cur.body # ""]_vars

\* C20 witness: a request with a disabled Content-Type: text/plain entry after
\* an enabled Accept entry, and a body, went out with Accept and the default
\* Content-Type; the list is as it was
C20_Witness ==
  /\ wire.n = 1
  /\ heap[cur.headers] = <<Header("Accept", "text/plain", TRUE),
                           Header("Content-Type", "text/plain", FALSE)>>
  /\ wire.last.header = [k \in {"Accept", "Content-Type"} |->
                           IF k = "Accept" THEN "text/plain" ELSE "application/json"]

(***************************************************************************)
(* The *Template SaveTemplate returns. s.templates is a slice over an      *)
(* array: the cells beyond its length stay in the array, append writes in  *)
(* place while a spare cell is left and moves to a new array otherwise,    *)
(* and sort.Slice and the removal of DeleteTemplate move values between    *)
(* the cells. A pointer to a cell follows the cell, not the value.         *)
(***************************************************************************)

\* the number of SaveTemplate calls while a returned pointer is followed
MaxRetSaves == 3

\* the zero Template, in the spare cells of a new array
ZeroTemplate ==
  [id |-> 0, name |-> 0, request |-> [method |-> "", url |-> "", headers |-> 0, body |-> ""],
   createdAt |-> 0, updatedAt |-> 0]

\* &s.templates[i]: a pointer to cell i of the array under s.templates
CellPtr(i) == [kind |-> "cell", i |-> i]

\* &template: a pointer to a Template that is not in that array (the local
\* variable of the insert path, or a cell of an array append has left)
OwnPtr(t) == [kind |-> "own", val |-> t]

\* cell j of the array under s.templates
Cell(j) == IF j <= Len(templates) THEN templates[j] ELSE tstale[j - Len(templates)]

\* *p
Deref(p) == IF p.kind = "cell" THEN Cell(p.i) ELSE p.val

\* the capacity append gives the new array when one of length n is full (the
\* runtime doubles a small slice)
NewCap(n) == IF n = 0 THEN 1 ELSE 2 * n

\* the arrays of header entries something refers to, the spare cells and the
\* pointer's own Template included
LiveRet(ts, st, p) ==
  Live(ts, history, cur, gotT, gotH)
    \cup {st[j].request.headers : j \in 1..Len(st)}
    \cup (IF p.kind = "own" THEN {p.val.request.headers} ELSE {})

\* Storage.SaveTemplate(name, cur), the file write ending as w; the caller
\* keeps the pointer it held (keep) or takes the one returned
SaveTemplateRet(name, w, keep) ==
  LET i == IndexOfName(templates, name)
      req == Clone(heap, cur)
      h2 == CloneHeap(heap, cur)
      tmpl == NewTemplate(nextId, name, req, clock)
      inplace == tstale # <<>>
      returned == IF WriteErr(w) THEN NilPtr
                  ELSE IF i # 0 THEN CellPtr(i) ELSE OwnPtr(tmpl)
      kept == IF i = 0 /\ ~inplace /\ tret.kind = "cell" THEN OwnPtr(Deref(tret)) ELSE tret
  IN /\ clock' = clock + 1
     /\ IF i # 0
        THEN /\ templates' = UpdateExisting(templates, i, req, clock)
             /\ nextId' = nextId
             /\ tstale' = tstale
        ELSE /\ templates' \in SortSlice(Append(templates, tmpl))
             /\ nextId' = nextId + 1
             /\ tstale' = IF inplace THEN Tail(tstale)
                          ELSE [j \in 1..(NewCap(Len(templates)) - Len(templates) - 1) |->
                                  ZeroTemplate]
     /\ tret' = IF keep THEN kept ELSE returned
     /\ heap' = Collect(h2, LiveRet(templates', tstale', tret'))
     /\ tfile' = WriteFile(tfile, MarshalTemplates(h2, templates'), w)
     /\ ret' = Ret("SaveTemplate", WriteErr(w))
     /\ UNCHANGED <<history, hfile, cur, gotT, gotH, added, procVars, netVars>>

\* Storage.DeleteTemplate(id), the file write (if any) ending as w:
\* append(s.templates[:i], s.templates[i+1:]...) moves the later values one
\* cell down and leaves the last cell as it was
DeleteTemplateRet(id, w) ==
  LET i == IndexOfID(templates, id)
  IN /\ IF i # 0
        THEN /\ templates' = RemoveAt(templates, i)
             /\ tstale' = <<templates[Len(templates)]>> \o tstale
             /\ tfile' = WriteFile(tfile, MarshalTemplates(heap, templates'), w)
             /\ ret' = Ret("DeleteTemplate", WriteErr(w))
        ELSE /\ w = "ok"
             /\ UNCHANGED <<templates, tstale, tfile>>
             /\ ret' = Ret("DeleteTemplate", FALSE)
     /\ heap' = Collect(heap, LiveRet(templates', tstale', tret))
     /\ UNCHANGED <<history, nextId, clock, hfile, cur, gotT, gotH, added, procVars, netVars, tret>>

\* p.Request.Method = m through the pointer the caller holds
CallerSetRetMethod(m) ==
  /\ tret.kind # "nil"
  /\ Deref(tret).request.method # m
  /\ IF tret.kind = "own"
     THEN /\ tret' = [tret EXCEPT !.val.request.method = m]
          /\ UNCHANGED <<templates, tstale>>
     ELSE IF tret.i <= Len(templates)
     THEN /\ templates' = [templates EXCEPT ![tret.i].request.method = m]
          /\ UNCHANGED <<tstale, tret>>
     ELSE /\ tstale' = [tstale EXCEPT ![tret.i - Len(templates)].request.method = m]
          /\ UNCHANGED <<templates, tret>>
  /\ UNCHANGED <<history, heap, nextId, clock, tfile, hfile, cur, gotT, gotH, ret, added, procVars, netVars>>

\* p.Request.Headers[j].Enabled = !p.Request.Headers[j].Enabled through the
\* pointer the caller holds
CallerEditRetHeader(j) ==
  /\ tret.kind # "nil"
  /\ j \in 1..Len(heap[Deref(tret).request.headers])
  /\ heap' = [heap EXCEPT ![Deref(tret).request.headers][j].enabled = ~@]
  /\ UNCHANGED <<templates, history, nextId, clock, tfile, hfile, cur, gotT, gotH, ret, added, procVars, netVars, retVars>>

\* templates are saved and deleted while a caller holds, and writes through,
\* a pointer SaveTemplate returned
NextRet ==
  \/ \E n \in Names, w \in {"ok", "err_partial"}, keep \in BOOLEAN :
       clock <= MaxRetSaves /\ SaveTemplateRet(n, w, keep)
  \/ \E id \in 1..MaxRetSaves, w \in {"ok", "err_partial"} : DeleteTemplateRet(id, w)
  \/ \E x \in Inputs : CallerUpdateRequest(x[1], x[2], x[3], x[4])
  \/ \E m \in Methods : CallerSetRetMethod(m)
  \/ CallerEditRetHeader(1)

SpecRet == Init /\ [][NextRet]_vars

(***************************************************************************)
(* The application's send flow (ui/app.go) over the client and the store.  *)
(***************************************************************************)

\* the number of requests the application issues
MaxAppSends == 2

\* what the request panel can hold when Send is pressed: method, url, header
\* rows, body
AppInputs ==
  { <<"GET", "", <<>>, "">>,
    <<"GET", "%zz", <<>>, "">>,
    <<"GET", "example.com/x", <<>>, "">>,
    <<"POST", "https://example.com/x", <<Header("Accept", "text/plain", TRUE)>>, "{}">> }

\* a bug: every result is saved to the history
ShouldSaveAlways(resp) == TRUE

\* if resp.Error == ""
ShouldSave(resp) == resp.error = ""

\* App.SendRequest with the panel holding <<m, u, hl, b>>, the network doing
\* net and the write of history.json doing w: UpdateRequest sets the current
\* request from the panel, the client sends it, and AddHistory stores a clone
\* of the request with a copy of the Response struct when the result has no
\* error. DisplayResponse and RefreshHistory only read.
AppSendRequest(m, u, hl, b, net, w) ==
  LET rows == SelectSeq(hl, LAMBDA x : x.key # "")
      a == IF Referenced(cur.headers) THEN Len(heap) + 1 ELSE cur.headers
      h1 == IF a = cur.headers THEN [heap EXCEPT ![a] = rows] ELSE Append(heap, rows)
      c1 == [method |-> m, url |-> u, headers |-> a, body |-> b]
      resp == Respond(c1, rows, net, NewMapAddr)
      ms1 == IF Issued(c1) /\ net # "do_err"
             THEN MakeMap(maps, NewMapAddr, ServerHeaders) ELSE maps
      item == NewHistoryItem(nextId, Clone(h1, c1), resp, clock)
      h2 == CloneHeap(h1, c1)
  IN /\ cur' = c1
     /\ result' = resp
     /\ wire' = IF Issued(c1) THEN [n |-> wire.n + 1, last |-> HTTPRequest(c1, rows)] ELSE wire
     /\ IF ShouldSave(resp)
        THEN /\ nextId' = nextId + 1
             /\ clock' = clock + 1
             /\ history' = Truncate(Prepend(item, history))
             /\ heap' = Collect(h2, Live(templates, history', c1, gotT, gotH))
             /\ hfile' = WriteFile(hfile, MarshalHistoryIn(ms1, h2, history'), w)
             /\ ret' = Ret("AddHistory", WriteErr(w))
             /\ added' = Append(added, item)
        ELSE /\ heap' = Collect(h1, Live(templates, history, c1, gotT, gotH))
             /\ UNCHANGED <<nextId, clock, history, hfile, ret, added>>
     /\ maps' = CollectMaps(ms1, LiveMaps(history', resp))
     /\ UNCHANGED <<templates, tfile, gotT, gotH, procVars, retVars>>

\* resp.Headers[k] = v on the Response the caller got from the client
CallerSetResultHeader(k, v) ==
  /\ result.headers # NilMap
  /\ IF k \in DOMAIN maps[result.headers] THEN maps[result.headers][k] # v ELSE TRUE
  /\ maps' = [maps EXCEPT ![result.headers] =
                [x \in DOMAIN @ \cup {k} |-> IF x = k THEN v ELSE @[x]]]
  /\ UNCHANGED <<storeVars, cur, gotT, gotH, ret, added, procVars, result, wire, retVars>>

\* resp.Body = b on the Response the caller got from the client
CallerSetResultBody(b) ==
  /\ result.body # b
  /\ result' = [result EXCEPT !.body = b]
  /\ UNCHANGED <<storeVars, cur, gotT, gotH, ret, added, procVars, wire, maps, retVars>>

\* the application sends requests, and the holder of a result changes it
NextApp ==
  \/ \E x \in AppInputs, net \in NetOutcomes, w \in WriteOutcomes :
       wire.n < MaxAppSends /\ AppSendRequest(x[1], x[2], x[3], x[4], net, w)
  \/ \E k \in {"Content-Type", "X-Seen"} : CallerSetResultHeader(k, "1")
  \/ CallerSetResultBody("")

SpecApp == Init /\ [][NextApp]_vars

C22_URLPrefix ==
  [][\A net \in NetOutcomes :
       SendRequest(net)
       => /\ cur' = cur
          /\ heap' = heap
          /\ Issued(cur)
             => /\ wire'.last.url =
                     IF HasPrefix(cur.url, "http://") \/ HasPrefix(cur.url, "https://")
                     THEN cur.url ELSE AddHTTP(cur.url)
                /\ wire'.last.url \in {"http://example.com/x", "https://example.com/x"}]_vars

\* C22 witness: a url without a scheme went out with the prefix, and the
\* request still holds the url as entered
C22_Witness ==
  /\ wire.n = 1
  /\ cur.url = "example.com/x"
  /\ wire.last.url = "http://example.com/x"

\* C23: one SendRequest issues one request when the url is non-empty and
\* http.NewRequest accepts it, and none otherwise, whatever the network does;
\* it always hands back a Response, whose error is non-empty exactly when
\* something failed (no url, a url that does not parse, Do failing, the body
\* not readable to its end).
C23_OneCallOneResult ==
  [][\A net \in NetOutcomes :
       SendRequest(net)
       => LET built == cur.url # "" /\ cur.url # "%zz"
              failed == ~built \/ net \in {"do_err", "read_err"}
          IN /\ wire'.n = wire.n + (IF built THEN 1 ELSE 0)
             /\ DOMAIN result' = DOMAIN ZeroResponse
             /\ failed <=> result'.error # ""]_vars

\* C23 witness: Do failed; one request had been issued and the failure is in
\* the result
C23_Witness ==
  /\ wire.n = 1
  /\ result.error = "connection refused"

\* C24: in the send flow every history entry holds a response with an empty
\* error; a send whose result has an error leaves the history, its header
\* arrays and history.json as they were, and a send whose result has none puts
\* one entry at the head, holding that result.
C24_HistoryOnlyOnSuccess ==
  /\ [](\A i \in 1..Len(history) : history[i].response.error = "")
  /\ [][ret' = ret \/ ret'.op = "AddHistory"
        => \A x \in AppInputs, net \in NetOutcomes, w \in WriteOutcomes :
             AppSendRequest(x[1], x[2], x[3], x[4], net, w)
             => IF result'.error # ""
                THEN history' = history /\ DeepH' = DeepH /\ hfile' = hfile
                ELSE /\ Len(history') = Min(Len(history) + 1, maxHistoryItems)
                     /\ history'[1].response = result'
                     /\ \A i \in 2..Len(history') : history'[i] = history[i - 1]]_vars

\* C24 witness: a send succeeded and a later one failed; the history holds the
\* one entry
C24_Witness ==
  /\ wire.n = 2
  /\ result.error = "connection refused"
  /\ Len(history) = 1
  /\ history[1].response.error = ""

\* the responses the history holds, each with the contents of its Headers map
StoredResponses ==
  [i \in 1..Len(history) |->
     [history[i].response EXCEPT
        !.headers = IF @ = NilMap THEN <<"nil">> ELSE <<"map", maps[@]>>]]

\* C26: once AddHistory has returned, a change the caller makes to its result
\* (a field of it, or an entry of its headers map) leaves the response of every
\* history entry as it was.
C26_StoredResponseImmutable ==
  [][(\/ \E k \in {"Content-Type", "X-Seen"} : CallerSetResultHeader(k, "1")
      \/ CallerSetResultBody(""))
     => StoredResponses' = StoredResponses]_vars

\* C27: no step of SaveTemplate or DeleteTemplate changes the history (the
\* collection, the contents of its header arrays) or history.json; no step of
\* AddHistory or ClearHistory changes the templates or templates.json; no step
\* of GetTemplates, GetHistory, TemplateNameExists, GetTemplateByID or
\* GetHistoryByID changes either collection or either file.
C27_CollectionsIndependent ==
  [][\A p \in Procs :
       pc'[p] # pc[p]
       => LET op == loc'[p].op
              keepsT == templates' = templates /\ DeepT' = DeepT /\ tfile' = tfile
              keepsH == history' = history /\ DeepH' = DeepH /\ hfile' = hfile
          IN /\ op \in {"SaveTemplate", "DeleteTemplate"} => keepsH
             /\ op \in {"AddHistory", "ClearHistory"} => keepsT
             /\ op \in {"GetTemplates", "GetHistory", "TemplateNameExists",
                        "GetTemplateByID", "GetHistoryByID"} => keepsT /\ keepsH]_vars

\* C27 witness: AddHistory ran to its end, then SaveTemplate did, each with
\* its file written; both collections hold their one item
C27_Witness ==
  /\ pc[1] = "done" /\ loc[1].op = "AddHistory"
  /\ pc[2] = "done" /\ loc[2].op = "SaveTemplate"
  /\ Len(history) = 1 /\ history[1].id = 1 /\ hfile.kind = "data"
  /\ Len(templates) = 1 /\ templates[1].id = 2 /\ tfile.kind = "data"

\* what the pointer the caller holds denotes, with the entries of its headers
DeepRet ==
  IF tret.kind = "nil" THEN <<>>
  ELSE <<[Deref(tret) EXCEPT !.request = MarshalRequest(heap, @)]>>

\* C25: while a caller holds the *Template SaveTemplate returned, a
\* SaveTemplate that inserts another name and a DeleteTemplate leave what the
\* pointer denotes as it was, and a write through the pointer leaves the
\* store's templates (and the entries of their headers) as they were.
C25_ReturnedSnapshot ==
  [][/\ \A n \in Names, w \in {"ok", "err_partial"} :
          tret.kind # "nil" /\ IndexOfName(templates, n) = 0 /\ SaveTemplateRet(n, w, TRUE)
          => DeepRet' = DeepRet
     /\ \A id \in 1..MaxRetSaves, w \in {"ok", "err_partial"} :
          tret.kind # "nil" /\ DeleteTemplateRet(id, w) => DeepRet' = DeepRet
     /\ (\E m \in Methods : CallerSetRetMethod(m)) \/ CallerEditRetHeader(1)
        => DeepT' = DeepT]_vars

====
